---- MODULE Spec2Model ----
(***************************************************************************)
(* The language-server layer of StyLua (src/cli/lsp.rs, src/cli/lsp/fmt.rs):*)
(* the document store and its open / change / close handlers, the          *)
(* position-to-offset translation, and the conversion of a line diff into  *)
(* text edits done by format_document.                                     *)
(*                                                                         *)
(* A text is a sequence of bytes; every byte of the model is ASCII, so a   *)
(* byte offset is always a character boundary.  Positions and diff indices *)
(* are 0-based as in the source, sequences are 1-based as in TLA+.         *)
(***************************************************************************)
EXTENDS Integers, Sequences, FiniteSets, TLC

VARIABLES document_map, workspace_folders, opened, panicked, last, tasks

vars == <<document_map, workspace_folders, opened, panicked, last, tasks>>

----------------------------------------------------------------------------
(* Values *)

LF == "LF"
CR == "CR"

\* Option<T>
None == [kind |-> "None"]
Some(v) == [kind |-> "Some", value |-> v]

\* the outcome of an evaluation that unwinds (a failed expect / unwrap, a
\* slice index out of range)
Panic == [kind |-> "Panic"]

\* DashMap<Url, String>: a function from the keys that have an entry to their
\* text
EmptyMap == [u \in {} |-> <<>>]

\* DashMap::insert
insert(m, uri, text) ==
    [u \in DOMAIN m \cup {uri} |-> IF u = uri THEN text ELSE m[u]]

\* DashMap::_remove
remove(m, uri) == [u \in DOMAIN m \ {uri} |-> m[u]]

Position(l, c) == [line |-> l, character |-> c]

Range(s, e) == [start |-> s, end |-> e]

TextEdit(r, t) == [range |-> r, new_text |-> t]

Min(a, b) == IF a <= b THEN a ELSE b

----------------------------------------------------------------------------
(* Bounds *)

\* longest document text of the store specifications, in bytes
MaxDocLen == 2

\* longest buffer handed to position_to_offset on its own, in bytes
MaxBufLen == 3

\* largest line and character index of a drawn position
MaxLine == 2
MaxCharacter == 3

\* most lines of a text of the diff specification
MaxLines == 3

Uris == {"u1", "u2"}

DocChars == {"a", LF}

RECURSIVE SeqsUpTo(_, _)
SeqsUpTo(S, n) ==
    IF n = 0 THEN {<<>>}
    ELSE LET shorter == SeqsUpTo(S, n - 1)
         IN  shorter \cup {Append(s, c) : s \in shorter, c \in S}

DocTexts == SeqsUpTo(DocChars, MaxDocLen)

Buffers == SeqsUpTo(DocChars, MaxBufLen)

Positions == {Position(l, c) : l \in 0..MaxLine, c \in 0..MaxCharacter}

\* largest line and character index of an end of the range of a change event
\* or of a range-format request
MaxRangeLine == 1
MaxRangeCharacter == 2

RangePositions ==
    {Position(l, c) : l \in 0..MaxRangeLine, c \in 0..MaxRangeCharacter}

\* the replacement texts of range events
EventTexts == {<<>>, <<"a">>, <<LF>>}

----------------------------------------------------------------------------
(* str helpers of the standard library, as the handlers use them *)

\* index of the first LF of s, 0 when there is none
FirstLF(s) ==
    LET idx == {i \in 1..Len(s) : s[i] = LF}
    IN  IF idx = {} THEN 0 ELSE CHOOSE i \in idx : \A j \in idx : i <= j

\* str::split_inclusive('\n'): the lines with their terminator; the empty
\* string has no line, and nothing follows a final terminator
RECURSIVE split_inclusive(_)
split_inclusive(s) ==
    IF s = <<>> THEN <<>>
    ELSE LET i == FirstLF(s)
         IN  IF i = 0 THEN <<s>>
             ELSE <<SubSeq(s, 1, i)>> \o split_inclusive(SubSeq(s, i + 1, Len(s)))

\* the scan of position_to_offset: the running sum of the lengths of the
\* lines before the k-th one (k counted from 1)
RECURSIVE scan_offsets(_, _)
scan_offsets(lines, k) ==
    IF k = 1 THEN 0 ELSE scan_offsets(lines, k - 1) + Len(lines[k - 1])

\* str::replace_range(start..end, text); the range is checked before anything
\* is written
replace_range(s, start, end, text) ==
    IF start > end \/ end > Len(s) THEN Panic
    ELSE Some(SubSeq(s, 1, start) \o text \o SubSeq(s, end + 1, Len(s)))

----------------------------------------------------------------------------
(* position_to_offset *)

\* a slip of the line lookup: a line past the last one is clamped to the last
position_to_offset_clamp(position, s) ==
    LET lines == split_inclusive(s)
        n == IF position.line + 1 <= Len(lines) THEN position.line + 1 ELSE Len(lines)
    IN  IF n = 0 THEN None
        ELSE IF scan_offsets(lines, n) + position.character > Len(s) THEN Panic
        ELSE Some(scan_offsets(lines, n) + position.character)

position_to_offset(position, s) ==
    LET lines == split_inclusive(s)
        nth == IF position.line + 1 <= Len(lines)
               THEN Some(scan_offsets(lines, position.line + 1))
               ELSE None
    IN  IF nth.kind = "None" THEN None
        ELSE IF nth.value + position.character > Len(s) THEN Panic
        ELSE Some(nth.value + position.character)

----------------------------------------------------------------------------
(* The state after construction (start) *)

NoCall == [op |-> "none"]

Init ==
    /\ document_map = EmptyMap
    /\ workspace_folders = <<>>
    /\ opened = {}
    /\ panicked = FALSE
    /\ last = NoCall
    /\ tasks = <<>>

----------------------------------------------------------------------------
(* The notification handlers of the document store.  No handler awaits, so *)
(* each runs to its end (or to its panic) as one step.  A panic unwinds    *)
(* out of the handler: nothing in the source catches it, the server is     *)
(* gone and handles nothing more.                                          *)

\* TextDocumentContentChangeEvent; range is an Option<Range>
ChangeEvent(range, text) == [range |-> range, text |-> text]

\* Backend::did_open
did_open(uri, text) ==
    /\ ~panicked
    /\ document_map' = insert(document_map, uri, text)
    /\ opened' = opened \cup {uri}
    /\ last' = [op |-> "did_open", uri |-> uri, text |-> text]
    /\ UNCHANGED <<workspace_folders, panicked, tasks>>

\* one turn of the loop of did_change: the store after the event, or Panic
apply_change(m, uri, event) ==
    IF event.range.kind = "Some"
    THEN IF uri \notin DOMAIN m THEN Panic
         ELSE LET document == m[uri]
                  start == position_to_offset(event.range.value.start, document)
                  end == position_to_offset(event.range.value.end, document)
              IN  IF start.kind # "Some" THEN Panic
                  ELSE IF end.kind # "Some" THEN Panic
                  ELSE LET replaced == replace_range(document, start.value, end.value,
                                                     event.text)
                       IN  IF replaced.kind # "Some" THEN Panic
                           ELSE Some(insert(m, uri, replaced.value))
    ELSE Some(insert(m, uri, event.text))

\* a slip of the loop: every range is resolved against the text the document
\* had when the batch arrived, the replacement is made in the current text
RECURSIVE apply_changes_stale(_, _, _)
apply_changes_stale(m, uri, content_changes) ==
    IF content_changes = <<>> THEN [map |-> m, panicked |-> FALSE]
    ELSE LET n == Len(content_changes)
             before == apply_changes_stale(m, uri, SubSeq(content_changes, 1, n - 1))
             event == content_changes[n]
         IN  IF before.panicked THEN before
             ELSE IF event.range.kind # "Some"
                  THEN [map |-> insert(before.map, uri, event.text), panicked |-> FALSE]
             ELSE IF uri \notin DOMAIN m \/ uri \notin DOMAIN before.map
                  THEN [map |-> before.map, panicked |-> TRUE]
             ELSE LET start == position_to_offset(event.range.value.start, m[uri])
                      end == position_to_offset(event.range.value.end, m[uri])
                  IN  IF start.kind # "Some" \/ end.kind # "Some"
                      THEN [map |-> before.map, panicked |-> TRUE]
                      ELSE LET replaced == replace_range(before.map[uri], start.value,
                                                         end.value, event.text)
                           IN  IF replaced.kind # "Some"
                               THEN [map |-> before.map, panicked |-> TRUE]
                               ELSE [map |-> insert(before.map, uri, replaced.value),
                                     panicked |-> FALSE]

\* the loop of did_change over content_changes, in order; it stops at the
\* first panic with the earlier events already applied
RECURSIVE apply_changes(_, _, _)
apply_changes(m, uri, content_changes) ==
    IF content_changes = <<>> THEN [map |-> m, panicked |-> FALSE]
    ELSE LET step == apply_change(m, uri, Head(content_changes))
         IN  IF step.kind = "Panic" THEN [map |-> m, panicked |-> TRUE]
             ELSE apply_changes(step.value, uri, Tail(content_changes))

\* Backend::did_change
did_change(uri, content_changes) ==
    /\ ~panicked
    /\ LET done == apply_changes(document_map, uri, content_changes)
       IN  /\ document_map' = done.map
           /\ panicked' = done.panicked
    /\ last' = [op |-> "did_change", uri |-> uri, content_changes |-> content_changes,
                before |-> document_map]
    /\ UNCHANGED <<workspace_folders, opened, tasks>>

\* Backend::did_close
did_close(uri) ==
    /\ ~panicked
    /\ document_map' = remove(document_map, uri)
    /\ opened' = opened \ {uri}
    /\ last' = [op |-> "did_close", uri |-> uri]
    /\ UNCHANGED <<workspace_folders, panicked, tasks>>

----------------------------------------------------------------------------
(* The document store under open, change and close notifications *)

RangeEvents ==
    {ChangeEvent(Some(Range(p, q)), t) : p \in RangePositions, q \in RangePositions,
                                         t \in EventTexts}

FullEvents == {ChangeEvent(None, t) : t \in DocTexts}

Events == RangeEvents \cup FullEvents

\* the events of the notifications of Spec: every full replacement, and the
\* range events that write "a"
StoreEvents == FullEvents \cup {e \in RangeEvents : e.text = <<"a">>}

\* the texts of the store stay within MaxDocLen
Bounded(m) == \A u \in DOMAIN m : Len(m[u]) <= MaxDocLen

Next ==
    \/ \E uri \in Uris, text \in DocTexts : did_open(uri, text)
    \/ \E uri \in Uris, event \in StoreEvents :
          did_change(uri, <<event>>) /\ Bounded(document_map')
    \/ \E uri \in Uris : did_close(uri)

Spec == Init /\ [][Next]_vars

----------------------------------------------------------------------------
(* One change notification with a batch of up to two events, for one open  *)
(* document of any text                                                    *)

Batches ==
    {<<>>} \cup {<<e>> : e \in Events} \cup {<<e1, e2>> : e1 \in Events, e2 \in Events}

InitPatch ==
    /\ \E s \in DocTexts : document_map = insert(EmptyMap, "u1", s)
    /\ workspace_folders = <<>>
    /\ opened = {"u1"}
    /\ panicked = FALSE
    /\ last = NoCall
    /\ tasks = <<>>

NextPatch ==
    /\ last = NoCall
    /\ \E content_changes \in Batches : did_change("u1", content_changes)

SpecPatch == InitPatch /\ [][NextPatch]_vars

----------------------------------------------------------------------------
(* The line diff of the similar crate, as format_document calls it.  The   *)
(* crate is a dependency: what is modelled is what TextDiff::from_lines    *)
(* and grouped_ops give back to fmt.rs.                                    *)

\* the end of the line that starts at byte i of s (1-based): the index of its
\* LF, of its bare CR, or of the last byte of s
RECURSIVE LineEnd(_, _)
LineEnd(s, i) ==
    IF i >= Len(s) THEN Len(s)
    ELSE IF s[i] = LF THEN i
    ELSE IF s[i] = CR THEN (IF s[i + 1] = LF THEN i + 1 ELSE i)
    ELSE LineEnd(s, i + 1)

\* TextDiff::from_lines cuts both texts into lines that keep their
\* terminator, which is CR LF, LF or a bare CR
RECURSIVE tokenize_lines(_)
tokenize_lines(s) ==
    IF s = <<>> THEN <<>>
    ELSE LET e == LineEnd(s, 1)
         IN  <<SubSeq(s, 1, e)>> \o tokenize_lines(SubSeq(s, e + 1, Len(s)))

Equal(old_index, new_index, len) ==
    [tag |-> "Equal", old_index |-> old_index, new_index |-> new_index, len |-> len]

Delete(old_index, old_len, new_index) ==
    [tag |-> "Delete", old_index |-> old_index, old_len |-> old_len,
     new_index |-> new_index]

Insert(old_index, new_index, new_len) ==
    [tag |-> "Insert", old_index |-> old_index, new_index |-> new_index,
     new_len |-> new_len]

Replace(old_index, old_len, new_index, new_len) ==
    [tag |-> "Replace", old_index |-> old_index, old_len |-> old_len,
     new_index |-> new_index, new_len |-> new_len]

\* the pairings of equal lines that keep the order of both texts, as sets of
\* pairs of 1-based line numbers
Alignments(a, b) ==
    LET pairs == {p \in (1..Len(a)) \X (1..Len(b)) : a[p[1]] = b[p[2]]}
    IN  {M \in SUBSET pairs : \A p \in M, q \in M : (p[1] < q[1]) <=> (p[2] < q[2])}

\* the diff is minimal: its pairing keeps as many lines as any pairing can
MinimalAlignments(a, b) ==
    LET all == Alignments(a, b)
        sizes == {Cardinality(M) : M \in all}
        most == CHOOSE k \in sizes : \A l \in sizes : l <= k
    IN  {M \in all : Cardinality(M) = most}

\* the length of the run of paired lines that starts at (i, j), 0-based
RECURSIVE EqualRun(_, _, _)
EqualRun(M, i, j) ==
    IF <<i + 1, j + 1>> \in M THEN 1 + EqualRun(M, i + 1, j + 1) ELSE 0

\* the ops of a pairing from (i, j) on: an Equal for each run of paired lines,
\* and between two runs one Delete, Insert or Replace (a deletion next to an
\* insertion is reported as one Replace)
RECURSIVE ops_from(_, _, _, _, _)
ops_from(M, i, j, n, m) ==
    IF i = n /\ j = m THEN <<>>
    ELSE IF <<i + 1, j + 1>> \in M
    THEN LET k == EqualRun(M, i, j)
         IN  <<Equal(i, j, k)>> \o ops_from(M, i + k, j + k, n, m)
    ELSE LET later == {p \in M : p[1] > i /\ p[2] > j}
             nxt == IF later = {} THEN <<n, m>>
                    ELSE LET p == CHOOSE p \in later : \A q \in later : p[1] <= q[1]
                         IN  <<p[1] - 1, p[2] - 1>>
             old_len == nxt[1] - i
             new_len == nxt[2] - j
             op == IF old_len > 0 /\ new_len > 0 THEN Replace(i, old_len, j, new_len)
                   ELSE IF old_len > 0 THEN Delete(i, old_len, j)
                   ELSE Insert(i, j, new_len)
         IN  <<op>> \o ops_from(M, nxt[1], nxt[2], n, m)

\* TextDiff::from_lines(old, new).ops(): one of the minimal line diffs; which
\* one the library picks is not fixed here
TextDiff_ops(old, new) ==
    LET a == tokenize_lines(old)
        b == tokenize_lines(new)
    IN  {ops_from(M, 0, 0, Len(a), Len(b)) : M \in MinimalAlignments(a, b)}

\* the loop of group_diff_ops: an Equal longer than 2 n closes the group with
\* its first n lines and opens the next with its last n
RECURSIVE group_loop(_, _, _, _)
group_loop(ops, n, pending_group, rv) ==
    IF ops = <<>>
    THEN IF pending_group = <<>>
            \/ (Len(pending_group) = 1 /\ pending_group[1].tag = "Equal")
         THEN rv
         ELSE Append(rv, pending_group)
    ELSE LET op == Head(ops)
         IN  IF op.tag = "Equal" /\ op.len > n * 2
             THEN LET offset == op.len - n
                  IN  group_loop(Tail(ops), n,
                          <<Equal(op.old_index + offset, op.new_index + offset,
                                  op.len - offset)>>,
                          Append(rv, Append(pending_group,
                                            Equal(op.old_index, op.new_index, n))))
             ELSE group_loop(Tail(ops), n, Append(pending_group, op), rv)

\* TextDiff::grouped_ops(n): the leading and the trailing Equal are cut to n
\* lines, then the ops are grouped
grouped_ops(ops, n) ==
    IF ops = <<>> THEN <<>>
    ELSE LET first == ops[1]
             ops1 == IF first.tag = "Equal" /\ first.len > n
                     THEN [ops EXCEPT ![1] = Equal(first.old_index + first.len - n,
                                                   first.new_index + first.len - n, n)]
                     ELSE ops
             final == ops1[Len(ops1)]
             ops2 == IF final.tag = "Equal" /\ final.len > n
                     THEN [ops1 EXCEPT ![Len(ops1)] = Equal(final.old_index,
                                                           final.new_index, n)]
                     ELSE ops1
         IN  group_loop(ops2, n, <<>>, <<>>)

----------------------------------------------------------------------------
(* fmt.rs: from diff ops to text edits *)

LineEndings == {"Unix", "Windows"}

\* str::lines(): the lines without their LF, and without the CR before it
lines(s) ==
    LET strip(line) ==
            IF line[Len(line)] # LF THEN line
            ELSE LET cut == SubSeq(line, 1, Len(line) - 1)
                 IN  IF cut # <<>> /\ cut[Len(cut)] = CR
                     THEN SubSeq(cut, 1, Len(cut) - 1)
                     ELSE cut
        split == split_inclusive(s)
    IN  [k \in 1..Len(split) |-> strip(split[k])]

\* Iterator::skip(n).take(k)
skip_take(seq, n, k) == SubSeq(seq, n + 1, Min(n + k, Len(seq)))

\* [&str]::join(sep)
RECURSIVE join(_, _)
join(seq, sep) ==
    IF seq = <<>> THEN <<>>
    ELSE IF Len(seq) = 1 THEN seq[1]
    ELSE seq[1] \o sep \o join(Tail(seq), sep)

separator(line_endings) == IF line_endings = "Unix" THEN <<LF>> ELSE <<CR, LF>>

\* a slip of the Delete arm: the range ends at the last deleted line, not at
\* the line after it
diff_op_to_text_edit_short(diff_op, new_text, line_endings) ==
    IF diff_op.tag = "Equal" THEN None
    ELSE IF diff_op.tag = "Delete"
    THEN Some(TextEdit(Range(Position(diff_op.old_index, 0),
                             Position(diff_op.old_index + diff_op.old_len - 1, 0)),
                       <<>>))
    ELSE IF diff_op.tag = "Insert"
    THEN Some(TextEdit(Range(Position(diff_op.old_index, 0),
                             Position(diff_op.old_index, 0)),
                       join(skip_take(lines(new_text), diff_op.new_index, diff_op.new_len),
                            separator(line_endings))))
    ELSE Some(TextEdit(Range(Position(diff_op.old_index, 0),
                             Position(diff_op.old_index + diff_op.old_len, 0)),
                       join(skip_take(lines(new_text), diff_op.new_index, diff_op.new_len),
                            separator(line_endings))))

\* a slip of the Insert arm: the edit is placed at the line of the new text,
\* not of the old
diff_op_to_text_edit_new_index(diff_op, new_text, line_endings) ==
    IF diff_op.tag = "Equal" THEN None
    ELSE IF diff_op.tag = "Delete"
    THEN Some(TextEdit(Range(Position(diff_op.old_index, 0),
                             Position(diff_op.old_index + diff_op.old_len, 0)),
                       <<>>))
    ELSE IF diff_op.tag = "Insert"
    THEN Some(TextEdit(Range(Position(diff_op.new_index, 0),
                             Position(diff_op.new_index, 0)),
                       join(skip_take(lines(new_text), diff_op.new_index, diff_op.new_len),
                            separator(line_endings))))
    ELSE Some(TextEdit(Range(Position(diff_op.old_index, 0),
                             Position(diff_op.old_index + diff_op.old_len, 0)),
                       join(skip_take(lines(new_text), diff_op.new_index, diff_op.new_len),
                            separator(line_endings))))

diff_op_to_text_edit(diff_op, new_text, line_endings) ==
    IF diff_op.tag = "Equal" THEN None
    ELSE IF diff_op.tag = "Delete"
    THEN Some(TextEdit(Range(Position(diff_op.old_index, 0),
                             Position(diff_op.old_index + diff_op.old_len, 0)),
                       <<>>))
    ELSE IF diff_op.tag = "Insert"
    THEN Some(TextEdit(Range(Position(diff_op.old_index, 0),
                             Position(diff_op.old_index, 0)),
                       join(skip_take(lines(new_text), diff_op.new_index, diff_op.new_len),
                            separator(line_endings))))
    ELSE Some(TextEdit(Range(Position(diff_op.old_index, 0),
                             Position(diff_op.old_index + diff_op.old_len, 0)),
                       join(skip_take(lines(new_text), diff_op.new_index, diff_op.new_len),
                            separator(line_endings))))

\* flat_map over the groups, filter_map over the ops of each
RECURSIVE filter_map_ops(_, _, _)
filter_map_ops(ops, new_text, line_endings) ==
    IF ops = <<>> THEN <<>>
    ELSE LET edit == diff_op_to_text_edit(Head(ops), new_text, line_endings)
             rest == filter_map_ops(Tail(ops), new_text, line_endings)
         IN  IF edit.kind = "Some" THEN <<edit.value>> \o rest ELSE rest

RECURSIVE flat_map_groups(_, _, _)
flat_map_groups(groups, new_text, line_endings) ==
    IF groups = <<>> THEN <<>>
    ELSE filter_map_ops(Head(groups), new_text, line_endings)
            \o flat_map_groups(Tail(groups), new_text, line_endings)

\* format_document up to the diff.  The collaborators are inputs: result is
\* what format_code returns (Ok(text) or Err), line_endings is the field of
\* the Config get_config resolved.  The outcome is Panic, or the snapshot,
\* the range handed to the engine and the engine's text.  The URIs of the
\* model are file URIs for which get_config resolves a Config.
format_document(m, uri, range, result, line_endings) ==
    IF uri \notin DOMAIN m THEN Panic
    ELSE LET document == m[uri]
             start == IF range.kind = "Some"
                      THEN position_to_offset(range.value.start, document) ELSE None
             end == IF range.kind = "Some"
                    THEN position_to_offset(range.value.end, document) ELSE None
         IN  IF start.kind = "Panic" \/ end.kind = "Panic" THEN Panic
             ELSE IF result.kind # "Ok" THEN Panic
             ELSE Some([document |-> document,
                        range |-> IF range.kind = "Some"
                                  THEN Some(Range(start, end)) ELSE None,
                        result |-> result.value,
                        line_endings |-> line_endings])

\* the tail of format_document: the diff of snapshot and result, grouped
\* without context, each op turned into an edit
collect_edits(ops, result, line_endings) ==
    flat_map_groups(grouped_ops(ops, 0), result, line_endings)

\* a slip of the handler: the edit list is wrapped even when it is empty
respond_always_some(edits) == Some(edits)

\* LspResult::Ok(if edits.is_empty() { None } else { Some(edits) })
respond(edits) == IF edits = <<>> THEN None ELSE Some(edits)

\* the body shared by formatting and range_formatting
format_request(op, uri, range, result, line_endings) ==
    /\ ~panicked
    /\ LET formatted == format_document(document_map, uri, range, result, line_endings)
       IN  IF formatted.kind = "Panic"
           THEN /\ panicked' = TRUE
                /\ last' = [op |-> op, uri |-> uri, range |-> range, response |-> Panic]
           ELSE /\ panicked' = FALSE
                /\ \E ops \in TextDiff_ops(formatted.value.document, formatted.value.result) :
                      LET edits == collect_edits(ops, formatted.value.result, line_endings)
                      IN  last' = [op |-> op, uri |-> uri, range |-> range,
                                   engine_range |-> formatted.value.range,
                                   document |-> formatted.value.document,
                                   result |-> formatted.value.result,
                                   line_endings |-> line_endings,
                                   ops |-> ops,
                                   edits |-> edits,
                                   response |-> [kind |-> "Ok", value |-> respond(edits)]]
    /\ UNCHANGED <<document_map, workspace_folders, opened, tasks>>

\* Backend::formatting
formatting(uri, result, line_endings) ==
    format_request("formatting", uri, None, result, line_endings)

\* Backend::range_formatting
range_formatting(uri, range, result, line_endings) ==
    format_request("range_formatting", uri, Some(range), result, line_endings)

----------------------------------------------------------------------------
(* One format request for one open document, the diff and its edits in     *)
(* full.  The texts are made of whole                                      *)
(* lines: the document's lines are drawn from OldLines and the engine's    *)
(* from NewLines (two kinds of line both may have, one only the document,  *)
(* one only the engine's text); every line but possibly the last ends with *)
(* the terminator of the text.  The engine writes the line endings of the  *)
(* Config it is given.                                                     *)

OldLines == {<<"a">>, <<"b">>, <<"c">>}
NewLines == {<<"a">>, <<"x">>, <<"c">>}

\* the texts of up to MaxLines lines over contents, each line ended by eol
\* except, possibly, the last
LineTexts(contents, eol) ==
    LET bodies == SeqsUpTo(contents, MaxLines)
        terminated(ls) == join([k \in 1..Len(ls) |-> ls[k] \o eol], <<>>)
    IN  {terminated(ls) : ls \in bodies}
            \cup {terminated(SubSeq(ls, 1, Len(ls) - 1)) \o ls[Len(ls)] :
                    ls \in bodies \ {<<>>}}

OldTexts == LineTexts(OldLines, <<LF>>) \cup LineTexts(OldLines, <<CR, LF>>)

EngineTexts(line_endings) == LineTexts(NewLines, separator(line_endings))

EngineResults(line_endings) ==
    {[kind |-> "Ok", value |-> t] : t \in EngineTexts(line_endings)} \cup {[kind |-> "Err"]}

InitDiff ==
    /\ \E s \in OldTexts : document_map = insert(EmptyMap, "u1", s)
    /\ workspace_folders = <<>>
    /\ opened = {"u1"}
    /\ panicked = FALSE
    /\ last = NoCall
    /\ tasks = <<>>

NextDiff ==
    /\ last = NoCall
    /\ \E line_endings \in LineEndings : \E result \in EngineResults(line_endings) :
          formatting("u1", result, line_endings)

SpecDiff == InitDiff /\ [][NextDiff]_vars

----------------------------------------------------------------------------
(* One format or range-format request, for a document that is open or not; *)
(* the engine is given Unix line endings and returns any text or fails     *)

FormatRanges == {Range(p, q) : p \in RangePositions, q \in RangePositions}

FormatResults == {[kind |-> "Ok", value |-> t] : t \in DocTexts} \cup {[kind |-> "Err"]}

InitFormat ==
    /\ \E s \in DocTexts : document_map = insert(EmptyMap, "u1", s)
    /\ workspace_folders = <<>>
    /\ opened = {"u1"}
    /\ panicked = FALSE
    /\ last = NoCall
    /\ tasks = <<>>

NextFormat ==
    /\ last = NoCall
    /\ \E uri \in Uris, result \in FormatResults :
          \/ formatting(uri, result, "Unix")
          \/ \E range \in FormatRanges : range_formatting(uri, range, result, "Unix")

SpecFormat == InitFormat /\ [][NextFormat]_vars

----------------------------------------------------------------------------
(* The offset translation on its own: the buffer is drawn as the text of   *)
(* one stored document, the position is the caller's.                      *)

PositionToOffsetCall(uri, position) ==
    /\ ~panicked
    /\ uri \in DOMAIN document_map
    /\ last' = [op |-> "position_to_offset", position |-> position,
                s |-> document_map[uri],
                result |-> position_to_offset(position, document_map[uri])]
    /\ UNCHANGED <<document_map, workspace_folders, opened, panicked, tasks>>

InitOffset ==
    /\ \E s \in Buffers : document_map = insert(EmptyMap, "u1", s)
    /\ workspace_folders = <<>>
    /\ opened = {"u1"}
    /\ panicked = FALSE
    /\ last = NoCall
    /\ tasks = <<>>

NextOffset == \E position \in Positions : PositionToOffsetCall("u1", position)

SpecOffset == InitOffset /\ [][NextOffset]_vars

----------------------------------------------------------------------------
(* The session handshake and the registry of workspace folders.  Each      *)
(* handler is taken here as one step, from its call to its return.         *)

UTF8 == "utf-8"
UTF16 == "utf-16"
UTF32 == "utf-32"

\* ErrorCode::InvalidParams
InvalidParams == "InvalidParams"

\* workspace folders, each one value of WorkspaceFolder (uri and name)
Folders == {"f1", "f2"}

\* the lists of folders one message carries
FolderLists == {<<>>, <<"f1">>, <<"f2">>, <<"f1", "f2">>, <<"f1", "f1">>}

\* general.position_encodings as clients send it, in order of preference
EncodingLists == {<<>>, <<UTF16>>, <<UTF8>>, <<UTF16, UTF8>>, <<UTF32, UTF16>>}

\* ClientCapabilities, the part initialize reads
ClientCapabilities ==
    {[general |-> None], [general |-> Some([position_encodings |-> None])]}
        \cup {[general |-> Some([position_encodings |-> Some(list)])] :
                list \in EncodingLists}

\* InitializeParams, the part initialize reads
InitializeParams ==
    {[workspace_folders |-> new_folders, capabilities |-> capabilities] :
        new_folders \in {None} \cup {Some(list) : list \in FolderLists},
        capabilities \in ClientCapabilities}

\* the registry is capped at this many entries
MaxFolders == 3

\* slice::contains
contains(list, x) == \E k \in 1..Len(list) : list[k] = x

\* folders.retain(|folder| !removed.contains(folder))
retain(folders, removed) ==
    LET keep(folder) == ~contains(removed, folder)
    IN  SelectSeq(folders, keep)

\* folders.extend(added)
extend(folders, added) == folders \o added

\* a slip of the test: only the client's preferred encoding is looked at
supports_utf8_first(capabilities) ==
    /\ capabilities.general.kind = "Some"
    /\ capabilities.general.value.position_encodings.kind = "Some"
    /\ capabilities.general.value.position_encodings.value # <<>>
    /\ Head(capabilities.general.value.position_encodings.value) = UTF8

\* general.and_then(position_encodings).is_some_and(contains UTF8)
supports_utf8(capabilities) ==
    /\ capabilities.general.kind = "Some"
    /\ capabilities.general.value.position_encodings.kind = "Some"
    /\ contains(capabilities.general.value.position_encodings.value, UTF8)

\* the LspResult of initialize
initialize_result(params) ==
    IF ~supports_utf8(params.capabilities)
    THEN [kind |-> "Err",
          error |-> [code |-> InvalidParams,
                     message |-> "StyLua only supports UTF8 as position encoding"]]
    ELSE [kind |-> "Ok",
          value |-> [capabilities |->
                        [position_encoding |-> Some(UTF8),
                         text_document_sync |-> "INCREMENTAL",
                         document_formatting_provider |-> TRUE,
                         document_range_formatting_provider |-> TRUE,
                         workspace_folders |-> [supported |-> TRUE,
                                                change_notifications |-> TRUE]]]]

\* Backend::initialize: the folders of the request are stored first, the
\* encodings are looked at after that
initialize(params) ==
    /\ ~panicked
    /\ workspace_folders' = IF params.workspace_folders.kind = "Some"
                            THEN params.workspace_folders.value
                            ELSE workspace_folders
    /\ last' = [op |-> "initialize", params |-> params,
                before |-> [document_map |-> document_map,
                            workspace_folders |-> workspace_folders],
                response |-> initialize_result(params)]
    /\ UNCHANGED <<document_map, opened, panicked, tasks>>

\* Backend::did_change_workspace_folders
did_change_workspace_folders(added, removed) ==
    /\ ~panicked
    /\ workspace_folders' = extend(retain(workspace_folders, removed), added)
    /\ last' = [op |-> "did_change_workspace_folders", added |-> added,
                removed |-> removed, before |-> workspace_folders]
    /\ UNCHANGED <<document_map, opened, panicked, tasks>>

\* the texts a document is opened with in the session
SessionTexts == {<<>>, <<"a">>}

NextSession ==
    \/ \E params \in InitializeParams : initialize(params)
    \/ \E added \in FolderLists, removed \in FolderLists :
          /\ did_change_workspace_folders(added, removed)
          /\ Len(workspace_folders') <= MaxFolders
    \/ \E text \in SessionTexts : did_open("u1", text)

SpecSession == Init /\ [][NextSession]_vars

----------------------------------------------------------------------------
(* The writers of the registry, step by step.  A handler in flight is an   *)
(* entry of tasks; pc names the statement it is at:                        *)
(*   "write"   at self.workspace_folders.write().await, guard not held     *)
(*   "assign"  initialize holds the guard, before *folders = new_folders   *)
(*   "retain"  did_change_workspace_folders holds the guard, before retain *)
(*   "extend"  the same, retain done, before extend                        *)
(*   "done"    returned; the guard is dropped                              *)
(* The steps of different handlers interleave freely, as on a runtime with *)
(* several worker threads: only the lock orders them.                      *)

\* at most this many handlers are in flight in one behaviour
MaxTasks == 3

\* the lists of folders the handlers in flight carry
TaskFolderLists == {<<>>, <<"f1">>, <<"f2">>}

\* a handler at its first statement
Task(op, params, pc) ==
    [op |-> op, params |-> params, pc |-> pc, base |-> <<>>, next |-> 0,
     response |-> None]

\* the guard of a handler that gave it back after retain
holds_write_guard_short(task) == task.pc \in {"assign", "retain"}

\* the RwLockWriteGuard `folders` is alive: from the await to the end of the
\* block (initialize) or of the function (did_change_workspace_folders)
holds_write_guard(task) == task.pc \in {"assign", "retain", "extend"}

\* RwLock: the write guard is given when no guard is out
write_lock_free == \A j \in 1..Len(tasks) : ~holds_write_guard(tasks[j])

\* did_change_workspace_folders is called and runs to the await
FoldersCall(added, removed) ==
    /\ ~panicked
    /\ Len(tasks) < MaxTasks
    /\ tasks' = Append(tasks, Task("did_change_workspace_folders",
                                   [added |-> added, removed |-> removed], "write"))
    /\ UNCHANGED <<document_map, workspace_folders, opened, panicked, last>>

\* initialize is called and runs to the await; without folders in the
\* request there is no await and it returns
InitializeCall(params) ==
    /\ ~panicked
    /\ Len(tasks) < MaxTasks
    /\ tasks' = Append(tasks, Task("initialize", params,
                                   IF params.workspace_folders.kind = "Some"
                                   THEN "write" ELSE "done"))
    /\ UNCHANGED <<document_map, workspace_folders, opened, panicked, last>>

\* write().await returns the guard
WriteAcquire(i) ==
    /\ tasks[i].pc = "write"
    /\ write_lock_free
    /\ tasks' = [tasks EXCEPT ![i].pc = IF tasks[i].op = "initialize"
                                        THEN "assign" ELSE "retain",
                              ![i].base = workspace_folders]
    /\ UNCHANGED <<document_map, workspace_folders, opened, panicked, last>>

\* *folders = new_folders, and the end of the block
InitializeAssign(i) ==
    /\ tasks[i].pc = "assign"
    /\ workspace_folders' = tasks[i].params.workspace_folders.value
    /\ tasks' = [tasks EXCEPT ![i].pc = "done"]
    /\ UNCHANGED <<document_map, opened, panicked, last>>

\* folders.retain(..)
FoldersRetain(i) ==
    /\ tasks[i].pc = "retain"
    /\ workspace_folders' = retain(workspace_folders, tasks[i].params.removed)
    /\ tasks' = [tasks EXCEPT ![i].pc = "extend"]
    /\ UNCHANGED <<document_map, opened, panicked, last>>

\* folders.extend(added), and the end of the function
FoldersExtend(i) ==
    /\ tasks[i].pc = "extend"
    /\ workspace_folders' = extend(workspace_folders, tasks[i].params.added)
    /\ tasks' = [tasks EXCEPT ![i].pc = "done"]
    /\ UNCHANGED <<document_map, opened, panicked, last>>

\* the requests of initialize the handlers in flight carry
TaskInitializeParams ==
    {params \in InitializeParams :
        /\ params.capabilities.general = None
        /\ params.workspace_folders \in {None, Some(<<"f2">>)}}

NextFolders ==
    \/ \E added \in TaskFolderLists, removed \in TaskFolderLists :
          FoldersCall(added, removed)
    \/ \E params \in TaskInitializeParams : InitializeCall(params)
    \/ \E i \in 1..Len(tasks) :
          \/ WriteAcquire(i)
          \/ InitializeAssign(i)
          \/ FoldersRetain(i)
          \/ FoldersExtend(i)

SpecFolders == Init /\ [][NextFolders]_vars

----------------------------------------------------------------------------
(* The handlers of the document store in flight.  Server::serve is awaited *)
(* by start, so the futures of the handlers are polled by that one task:   *)
(* a future is polled for the first time in the order of arrival, and once *)
(* polled it runs until it awaits or returns; no other handler runs in     *)
(* between.  pc of a store handler:                                        *)
(*   "queued"   the future is made, not polled yet                         *)
(*   "guarded"  it holds the guard of get_mut (did_change) or get          *)
(*              (format_document) on its document                          *)
(*   "loop"     did_change is between two events, no guard held            *)
(*   "done"     returned                                                   *)
(*   "panicked" an expect failed                                           *)
(* next counts the events of content_changes that are applied; base is the *)
(* text the guard gave.                                                    *)

\* a slip: the loop of did_change awaits between two events
at_await_in_loop(task) == task.pc \in {"queued", "write", "done", "loop"}

\* a slip: format_document awaits while it holds the guard of its document
at_await_guarded(task) ==
    \/ task.pc \in {"queued", "write", "done"}
    \/ task.op = "formatting" /\ task.pc = "guarded"

\* the handler is not running: its future was not polled yet, it is at the
\* only await of the source (workspace_folders.write().await), or it returned
at_await(task) == task.pc \in {"queued", "write", "done"}

\* no handler is running: the server task can take a message or poll a future
idle == \A j \in 1..Len(tasks) : at_await(tasks[j])

\* the server task can poll handler i: no other handler is running, and a
\* future is polled for the first time after those that arrived before it
polled(i) ==
    /\ \A j \in 1..Len(tasks) : j # i => at_await(tasks[j])
    /\ tasks[i].pc = "queued" => \A j \in 1..(i - 1) : tasks[j].pc # "queued"

\* the Ref or RefMut of the DashMap is alive
holds_store_guard(task) ==
    task.op \in {"did_change", "formatting"} /\ task.pc = "guarded"

\* DashMap locks one shard for an access, and two keys can be in one shard:
\* an access may have to wait for any guard that is out
store_free == \A j \in 1..Len(tasks) : ~holds_store_guard(tasks[j])

\* a message arrives and the future of its handler is made
StoreCall(op, params) ==
    /\ ~panicked
    /\ idle
    /\ Len(tasks) < MaxTasks
    /\ tasks' = Append(tasks, Task(op, params, "queued"))
    /\ UNCHANGED <<document_map, workspace_folders, opened, panicked, last>>

\* Backend::did_open
DidOpenRun(i) ==
    /\ tasks[i].op = "did_open"
    /\ tasks[i].pc = "queued"
    /\ store_free
    /\ document_map' = insert(document_map, tasks[i].params.uri, tasks[i].params.text)
    /\ opened' = opened \cup {tasks[i].params.uri}
    /\ tasks' = [tasks EXCEPT ![i].pc = "done"]
    /\ UNCHANGED <<workspace_folders, panicked, last>>

\* Backend::did_close
DidCloseRun(i) ==
    /\ tasks[i].op = "did_close"
    /\ tasks[i].pc = "queued"
    /\ store_free
    /\ document_map' = remove(document_map, tasks[i].params.uri)
    /\ opened' = opened \ {tasks[i].params.uri}
    /\ tasks' = [tasks EXCEPT ![i].pc = "done"]
    /\ UNCHANGED <<workspace_folders, panicked, last>>

\* the pc of did_change after its event number k
after_event(task, k) ==
    IF k = Len(task.params.content_changes) THEN "done" ELSE "loop"

\* did_change, Some(range) arm: get_mut(&uri).expect(..)
ChangeGetMut(i) ==
    /\ tasks[i].op = "did_change"
    /\ tasks[i].pc \in {"queued", "loop"}
    /\ tasks[i].params.content_changes[tasks[i].next + 1].range.kind = "Some"
    /\ store_free
    /\ IF tasks[i].params.uri \in DOMAIN document_map
       THEN /\ tasks' = [tasks EXCEPT ![i].pc = "guarded",
                                      ![i].base = document_map[tasks[i].params.uri]]
            /\ panicked' = FALSE
       ELSE /\ tasks' = [tasks EXCEPT ![i].pc = "panicked"]
            /\ panicked' = TRUE
    /\ UNCHANGED <<document_map, workspace_folders, opened, last>>

\* did_change, Some(range) arm: the two position_to_offset(..).expect(..),
\* replace_range, and the end of the arm
ChangeReplace(i) ==
    /\ tasks[i].op = "did_change"
    /\ tasks[i].pc = "guarded"
    /\ LET event == tasks[i].params.content_changes[tasks[i].next + 1]
           step == apply_change(document_map, tasks[i].params.uri, event)
       IN  IF step.kind = "Panic"
           THEN /\ tasks' = [tasks EXCEPT ![i].pc = "panicked"]
                /\ panicked' = TRUE
                /\ UNCHANGED document_map
           ELSE /\ document_map' = step.value
                /\ tasks' = [tasks EXCEPT ![i].pc = after_event(tasks[i], tasks[i].next + 1),
                                          ![i].next = tasks[i].next + 1]
                /\ panicked' = FALSE
    /\ UNCHANGED <<workspace_folders, opened, last>>

\* did_change, None arm: insert(uri.clone(), text)
ChangeInsert(i) ==
    /\ tasks[i].op = "did_change"
    /\ tasks[i].pc \in {"queued", "loop"}
    /\ tasks[i].params.content_changes[tasks[i].next + 1].range.kind = "None"
    /\ store_free
    /\ document_map' = insert(document_map, tasks[i].params.uri,
                              tasks[i].params.content_changes[tasks[i].next + 1].text)
    /\ tasks' = [tasks EXCEPT ![i].pc = after_event(tasks[i], tasks[i].next + 1),
                              ![i].next = tasks[i].next + 1]
    /\ UNCHANGED <<workspace_folders, opened, panicked, last>>

\* format_document: document_map.get(&uri).expect(..)
FormatGet(i) ==
    /\ tasks[i].op = "formatting"
    /\ tasks[i].pc = "queued"
    /\ store_free
    /\ IF tasks[i].params.uri \in DOMAIN document_map
       THEN /\ tasks' = [tasks EXCEPT ![i].pc = "guarded",
                                      ![i].base = document_map[tasks[i].params.uri]]
            /\ panicked' = FALSE
       ELSE /\ tasks' = [tasks EXCEPT ![i].pc = "panicked"]
            /\ panicked' = TRUE
    /\ UNCHANGED <<document_map, workspace_folders, opened, last>>

\* format_document from get_config to its end, and the answer of formatting
FormatCompute(i) ==
    /\ tasks[i].op = "formatting"
    /\ tasks[i].pc = "guarded"
    /\ LET formatted == format_document(document_map, tasks[i].params.uri, None,
                                        tasks[i].params.result,
                                        tasks[i].params.line_endings)
       IN  IF formatted.kind = "Panic"
           THEN /\ tasks' = [tasks EXCEPT ![i].pc = "panicked"]
                /\ panicked' = TRUE
           ELSE /\ \E ops \in TextDiff_ops(formatted.value.document, formatted.value.result) :
                      tasks' = [tasks EXCEPT
                                  ![i].pc = "done",
                                  ![i].response =
                                      Some(respond(collect_edits(ops, formatted.value.result,
                                                                 tasks[i].params.line_endings)))]
                /\ panicked' = FALSE
    /\ UNCHANGED <<document_map, workspace_folders, opened, last>>

\* the events of the batches in flight
prepend_a == ChangeEvent(Some(Range(Position(0, 0), Position(0, 0))), <<"a">>)
first_to_lf == ChangeEvent(Some(Range(Position(0, 0), Position(0, 1))), <<LF>>)
full_a == ChangeEvent(None, <<"a">>)

TaskBatches == {<<full_a, prepend_a>>, <<prepend_a, first_to_lf>>, <<first_to_lf>>}

\* the messages for the document store that arrive
StoreRequests ==
    {[op |-> "did_open", params |-> [uri |-> "u1", text |-> <<"a">>]],
     [op |-> "did_open", params |-> [uri |-> "u2", text |-> <<>>]]}
        \cup {[op |-> "did_close", params |-> [uri |-> "u1"]]}
        \cup {[op |-> "did_change",
               params |-> [uri |-> uri, content_changes |-> content_changes]] :
                 uri \in Uris, content_changes \in TaskBatches}
        \cup {[op |-> "formatting",
               params |-> [uri |-> uri, result |-> [kind |-> "Ok", value |-> <<"a", LF>>],
                           line_endings |-> "Unix"]] : uri \in {"u1"}}

NextTasks ==
    \/ \E request \in StoreRequests : StoreCall(request.op, request.params)
    \/ /\ idle
       /\ \A j \in 1..Len(tasks) : tasks[j].pc # "queued"
       /\ FoldersCall(<<"f1">>, <<>>)
    \/ \E i \in 1..Len(tasks) :
          /\ ~panicked
          /\ polled(i)
          /\ \/ DidOpenRun(i)
             \/ DidCloseRun(i)
             \/ ChangeGetMut(i)
             \/ ChangeReplace(i)
             \/ ChangeInsert(i)
             \/ FormatGet(i)
             \/ FormatCompute(i)
             \/ WriteAcquire(i)
             \/ FoldersRetain(i)
             \/ FoldersExtend(i)

SpecTasks == Init /\ [][NextTasks]_vars

----------------------------------------------------------------------------
(* Reference notions the properties are stated with *)

\* the number of lines of a buffer, a line ending after each LF
NumLines(s) ==
    Cardinality({i \in 1..Len(s) : s[i] = LF})
        + (IF s # <<>> /\ s[Len(s)] # LF THEN 1 ELSE 0)

\* the offset at which line l of s starts: right after the l-th LF
LineStart(s, l) ==
    IF l = 0 THEN 0
    ELSE CHOOSE i \in 1..Len(s) :
            /\ s[i] = LF
            /\ Cardinality({j \in 1..i : s[j] = LF}) = l

\* the offset a position names in s: the start of its line plus its character
RefOffset(s, pos) == LineStart(s, pos.line) + pos.character

\* the position names a place of s: its line exists and the offset is in s
RefResolves(s, pos) == pos.line < NumLines(s) /\ RefOffset(s, pos) <= Len(s)

\* both ends of the range name a place of s, the start not after the end
RefRangeOk(s, r) ==
    /\ RefResolves(s, r.start)
    /\ RefResolves(s, r.end)
    /\ RefOffset(s, r.start) <= RefOffset(s, r.end)

\* the effect one change event is meant to have on the text s
RefApply(s, event) ==
    IF event.range.kind = "None" THEN event.text
    ELSE SubSeq(s, 1, RefOffset(s, event.range.value.start))
            \o event.text
            \o SubSeq(s, RefOffset(s, event.range.value.end) + 1, Len(s))

\* every range of the batch resolves against the text the events before it
\* produce
RECURSIVE RefBatchOk(_, _)
RefBatchOk(s, content_changes) ==
    \/ content_changes = <<>>
    \/ /\ \/ Head(content_changes).range.kind = "None"
          \/ RefRangeOk(s, Head(content_changes).range.value)
       /\ RefBatchOk(RefApply(s, Head(content_changes)), Tail(content_changes))

\* the left-to-right fold of the events over s
RECURSIVE RefFold(_, _)
RefFold(s, content_changes) ==
    IF content_changes = <<>> THEN s
    ELSE RefFold(RefApply(s, Head(content_changes)), Tail(content_changes))

\* the offsets at which the lines of s start as the protocol counts them: 0,
\* and the offset after each CR LF, LF or bare CR (so an empty line follows a
\* final terminator)
ProtocolLineStarts(s) ==
    {0} \cup {i \in 1..Len(s) :
                \/ s[i] = LF
                \/ s[i] = CR /\ (i = Len(s) \/ s[i + 1] # LF)}

\* the offset an editor gives a position of s; a position past the text is
\* the end of the text
ProtocolOffset(s, pos) ==
    LET starts == ProtocolLineStarts(s)
    IN  IF pos.line >= Cardinality(starts) THEN Len(s)
        ELSE Min(Len(s),
                 pos.character
                    + (CHOOSE x \in starts :
                         Cardinality({y \in starts : y < x}) = pos.line))

\* the text an editor gets by applying the edits to old, every range read
\* against old: the edits are spliced in from the last to the first
RECURSIVE ApplyEdits(_, _, _)
ApplyEdits(text, edits, old) ==
    IF edits = <<>> THEN text
    ELSE LET e == edits[Len(edits)]
             from == ProtocolOffset(old, e.range.start)
             to == ProtocolOffset(old, e.range.end)
         IN  ApplyEdits(SubSeq(text, 1, from) \o e.new_text \o SubSeq(text, to + 1, Len(text)),
                        SubSeq(edits, 1, Len(edits) - 1), old)

\* the ops of a diff that are not Equal, in order
RECURSIVE Changes(_)
Changes(ops) ==
    IF ops = <<>> THEN <<>>
    ELSE IF Head(ops).tag = "Equal" THEN Changes(Tail(ops))
    ELSE <<Head(ops)>> \o Changes(Tail(ops))

\* lines index .. index + len - 1 (0-based) of text, terminators included
SelectedLines(text, index, len) ==
    join(SubSeq(tokenize_lines(text), index + 1, index + len), <<>>)

\* the last request was a format or range-format request that was answered
Formatted ==
    /\ last.op \in {"formatting", "range_formatting"}
    /\ last.response.kind = "Ok"

----------------------------------------------------------------------------
(* C1 - C5 *)

\* C1: applying the edits format_document returns to the snapshot they were
\* computed from yields exactly the text the formatting engine returned.
C1_EditsYieldResult ==
    Formatted => ApplyEdits(last.document, last.edits, last.document) = last.result

\* C2: when the diff has a Replace as its only change, exactly one edit is
\* returned; it spans the old lines from character 0 of the first to character
\* 0 of the line after the last, and its text is the selected new lines with
\* their line terminators.
C2_ReplaceKeepsTerminators ==
    (Formatted /\ Len(Changes(last.ops)) = 1 /\ Changes(last.ops)[1].tag = "Replace")
        => LET op == Changes(last.ops)[1]
           IN  last.edits
                 = <<TextEdit(Range(Position(op.old_index, 0),
                                    Position(op.old_index + op.old_len, 0)),
                              SelectedLines(last.result, op.new_index, op.new_len))>>

\* C3: when the diff has an Insert as its only change, exactly one edit is
\* returned; it is zero-width at line old_index, character 0, and its text is
\* the inserted new lines with their line terminators.
C3_InsertKeepsTerminators ==
    (Formatted /\ Len(Changes(last.ops)) = 1 /\ Changes(last.ops)[1].tag = "Insert")
        => LET op == Changes(last.ops)[1]
           IN  last.edits
                 = <<TextEdit(Range(Position(op.old_index, 0), Position(op.old_index, 0)),
                              SelectedLines(last.result, op.new_index, op.new_len))>>

\* C4: every Delete over the old lines [start, end) becomes an edit from
\* (start, 0) to (end, 0) with empty text, and an Equal becomes no edit: the
\* edits are as many as the ops that are not Equal, in their order.
C4_DeleteSpansLinesEqualDropped ==
    Formatted =>
        LET changes == Changes(last.ops)
        IN  /\ Len(last.edits) = Len(changes)
            /\ \A k \in 1..Len(changes) :
                  changes[k].tag = "Delete" =>
                      last.edits[k]
                        = TextEdit(Range(Position(changes[k].old_index, 0),
                                         Position(changes[k].old_index
                                                    + changes[k].old_len, 0)),
                                   <<>>)

\* a diff with an Equal and a Delete of at least two lines was translated
C4_Witness ==
    /\ Formatted
    /\ \E k \in 1..Len(last.ops) : last.ops[k].tag = "Equal"
    /\ \E k \in 1..Len(last.ops) : last.ops[k].tag = "Delete" /\ last.ops[k].old_len >= 2

\* C5: when the engine returns the document text unchanged, no edit is
\* returned and the request is answered with the empty result, not an error.
C5_SelfDiffIsEmpty ==
    (last.op \in {"formatting", "range_formatting"}
        /\ last.response.kind # "Panic"
        /\ last.result = last.document)
        => /\ last.edits = <<>>
           /\ last.response = [kind |-> "Ok", value |-> None]

\* the engine returned a text of several lines unchanged to a range-format
\* request
C5_Witness ==
    /\ Formatted
    /\ last.op = "range_formatting"
    /\ last.result = last.document
    /\ Len(tokenize_lines(last.document)) >= 2
    /\ last.response.value.kind = "None"

----------------------------------------------------------------------------
(* C6, C7 *)

\* C6: for every buffer and every position whose line index is at least the
\* number of lines of the buffer, position_to_offset returns no offset (None):
\* it neither clamps to the end of the buffer nor unwinds.
C6_LinePastEndFails ==
    (last.op = "position_to_offset" /\ last.position.line >= NumLines(last.s))
        => last.result.kind = "None"

\* the call was made for the line right after the final LF of a buffer of
\* two lines
C6_Witness ==
    /\ last.op = "position_to_offset"
    /\ last.result.kind = "None"
    /\ last.position.line = NumLines(last.s)
    /\ last.position.line = 2
    /\ last.s[Len(last.s)] = LF

\* C7: position_to_offset either returns the start offset of the line plus the
\* character, within [0, len], or returns None; it has no third outcome.
C7_OffsetInBufferOrNone ==
    last.op = "position_to_offset" =>
        \/ last.result.kind = "None"
        \/ /\ last.result.kind = "Some"
           /\ last.result.value \in 0..Len(last.s)
           /\ last.result.value = LineStart(last.s, last.position.line) + last.position.character

----------------------------------------------------------------------------
(* C8 - C10 *)

\* C8: for an open document and a batch whose ranges all resolve (each against
\* the text the events before it produced, start not after end), did_change
\* returns and leaves the document equal to the left-to-right fold of the
\* events over the prior text; every other document is left as it was.
C8_ChangeIsFoldOfEvents ==
    (/\ last.op = "did_change"
     /\ last.uri \in DOMAIN last.before
     /\ RefBatchOk(last.before[last.uri], last.content_changes))
        => /\ ~panicked
           /\ DOMAIN document_map = DOMAIN last.before
           /\ document_map[last.uri]
                = RefFold(last.before[last.uri], last.content_changes)
           /\ \A u \in DOMAIN last.before \ {last.uri} : document_map[u] = last.before[u]

\* a batch of two range events was applied, the second of which does not
\* resolve against the text the document had before the batch
C8_Witness ==
    /\ last.op = "did_change"
    /\ ~panicked
    /\ last.uri \in DOMAIN last.before
    /\ Len(last.content_changes) = 2
    /\ last.content_changes[1].range.kind = "Some"
    /\ last.content_changes[2].range.kind = "Some"
    /\ RefBatchOk(last.before[last.uri], last.content_changes)
    /\ ~RefRangeOk(last.before[last.uri], last.content_changes[2].range.value)
    /\ document_map[last.uri] # last.before[last.uri]

\* C9: the keys of the document store are exactly the URIs opened and not
\* closed since.
C9_StoreKeysAreOpened == DOMAIN document_map = opened

\* a change event of the last did_change does not resolve, or the
\* notification names a document that is not in the store
Unresolvable(uri, before, content_changes) ==
    \/ uri \notin DOMAIN before
    \/ ~RefBatchOk(before[uri], content_changes)

\* C10: a change event whose range does not resolve, or that names a document
\* that is not open, leaves the server running and the store as it was (it is
\* neither applied nor clamped).
C10_UnresolvableChangeIsSurvived ==
    (last.op = "did_change" /\ Unresolvable(last.uri, last.before, last.content_changes))
        => ~panicked /\ document_map = last.before

----------------------------------------------------------------------------
(* C11, C12, C16, C20 *)

\* C11: a format or range-format request for a URI that is not in the store is
\* answered with a structured error (no edits), and the server stays up.
C11_UnopenedFormatIsError ==
    (last.op \in {"formatting", "range_formatting"} /\ last.uri \notin DOMAIN document_map)
        => last.response.kind = "Err" /\ ~panicked

\* C12: a range-format request for an open document whose start or end does
\* not resolve in the document's text is answered with a structured error:
\* the engine is not run and no edits are returned.
C12_UnresolvedRangeIsError ==
    (/\ last.op = "range_formatting"
     /\ last.uri \in DOMAIN document_map
     /\ \/ ~RefResolves(document_map[last.uri], last.range.value.start)
        \/ ~RefResolves(document_map[last.uri], last.range.value.end))
        => last.response.kind = "Err" /\ ~panicked

\* a position is before or at another, in document order
PositionLeq(p, q) ==
    p.line < q.line \/ (p.line = q.line /\ p.character <= q.character)

\* C16: the edits format_document returns are in document order and do not
\* overlap: each edit starts no later than it ends and ends no later than the
\* next one starts; an Equal span gives no edit (the edits are as many as the
\* ops that are not Equal).
C16_EditsOrderedDisjoint ==
    Formatted =>
        /\ \A k \in 1..Len(last.edits) :
              PositionLeq(last.edits[k].range.start, last.edits[k].range.end)
        /\ \A k \in 1..(Len(last.edits) - 1) :
              PositionLeq(last.edits[k].range.end, last.edits[k + 1].range.start)
        /\ Len(last.edits) = Len(Changes(last.ops))

\* a diff with an Equal between a Delete and an Insert gave two edits
C16_Witness ==
    /\ Formatted
    /\ Len(last.edits) = 2
    /\ \E k \in 1..Len(last.ops) : last.ops[k].tag = "Equal"
    /\ \E k \in 1..Len(last.ops) : last.ops[k].tag = "Insert"
    /\ \E k \in 1..Len(last.ops) : last.ops[k].tag = "Delete"

\* C20: every edit format_document returns names places of the snapshot that
\* position_to_offset resolves: sent back as a range change event for the
\* same text, the edit is applied by the loop of did_change, not refused.
C20_EditsResolveInSnapshot ==
    Formatted =>
        \A k \in 1..Len(last.edits) :
            /\ position_to_offset(last.edits[k].range.start, last.document).kind = "Some"
            /\ position_to_offset(last.edits[k].range.end, last.document).kind = "Some"
            /\ apply_change(document_map, last.uri,
                            ChangeEvent(Some(last.edits[k].range),
                                        last.edits[k].new_text)).kind = "Some"

----------------------------------------------------------------------------
(* C13, C15, C19 *)

\* the client advertised UTF-8: it sent general capabilities with a list of
\* position encodings and UTF-8 is one of them
Utf8Advertised(params) ==
    /\ params.capabilities.general.kind = "Some"
    /\ params.capabilities.general.value.position_encodings.kind = "Some"
    /\ LET list == params.capabilities.general.value.position_encodings.value
       IN  UTF8 \in {list[k] : k \in 1..Len(list)}

\* C13: initialize succeeds, announcing UTF-8 as the position encoding,
\* exactly when UTF-8 is among the encodings the client advertised; in every
\* other case (no general capabilities, no list, a list without UTF-8) it is
\* refused with the error code InvalidParams.
C13_Utf8OrInvalidParams ==
    last.op = "initialize" =>
        IF Utf8Advertised(last.params)
        THEN /\ last.response.kind = "Ok"
             /\ last.response.value.capabilities.position_encoding = Some(UTF8)
        ELSE /\ last.response.kind = "Err"
             /\ last.response.error.code = InvalidParams

\* initialize succeeded for a client that prefers UTF-16 and also lists UTF-8
C13_Witness ==
    /\ last.op = "initialize"
    /\ last.params.capabilities.general.kind = "Some"
    /\ last.params.capabilities.general.value.position_encodings = Some(<<UTF16, UTF8>>)
    /\ last.response.kind = "Ok"

\* C15: the registry of workspace folders is a set: no folder is in it twice,
\* also after a change that adds a folder already registered (and not in
\* removed) or names a folder twice in added, and after initialize.
C15_RegistryHasNoDuplicates ==
    \A j \in 1..Len(workspace_folders), k \in 1..Len(workspace_folders) :
        workspace_folders[j] = workspace_folders[k] => j = k

\* C19: an initialize request that is refused for a missing UTF-8 encoding
\* leaves the registry of workspace folders and the document store as they
\* were, also when the request carried a list of workspace folders.
C19_RefusedInitializeChangesNothing ==
    (last.op = "initialize" /\ last.response.kind = "Err")
        => /\ workspace_folders = last.before.workspace_folders
           /\ document_map = last.before.document_map

\* the registry after a change: the folders of before that are not in
\* removed, in their order, followed by added
RECURSIVE RefFoldersAfter(_, _, _)
RefFoldersAfter(before, removed, added) ==
    IF before = <<>> THEN added
    ELSE IF Head(before) \in {removed[k] : k \in 1..Len(removed)}
    THEN RefFoldersAfter(Tail(before), removed, added)
    ELSE <<Head(before)>> \o RefFoldersAfter(Tail(before), removed, added)

----------------------------------------------------------------------------
(* C14 *)

\* C14: a change of the workspace folders is one atomic step under the write
\* lock: when the handler returns, the registry is what it was when the
\* handler took the lock, minus removed, followed by added; and while the
\* removals are applied and the additions are not, the handler holds the
\* write guard and no other handler holds one, so no reader gets in.
C14_FoldersChangeIsAtomic ==
    [][\A i \in 1..Len(tasks) :
          /\ (tasks[i].pc = "extend" /\ tasks'[i].pc = "done")
                => workspace_folders' = RefFoldersAfter(tasks[i].base,
                                                        tasks[i].params.removed,
                                                        tasks[i].params.added)
          /\ tasks'[i].pc = "extend"
                => /\ holds_write_guard(tasks'[i])
                   /\ \A j \in 1..Len(tasks') :
                         holds_write_guard(tasks'[j]) => j = i]_vars

\* a change that removes a registered folder and adds one has applied its
\* removals only, while another writer waits for the lock
C14_Witness ==
    \E i \in 1..Len(tasks), j \in 1..Len(tasks) :
        /\ tasks[i].op = "did_change_workspace_folders"
        /\ tasks[i].pc = "extend"
        /\ tasks[i].params.added # <<>>
        /\ workspace_folders # tasks[i].base
        /\ tasks[j].pc = "write"

----------------------------------------------------------------------------
(* C17, C18 *)

\* the store with the text t under u
RefPut(m, u, t) == [x \in DOMAIN m \cup {u} |-> IF x = u THEN t ELSE m[x]]

\* the store after the events, one after the other, on the document u
RECURSIVE RefChanges(_, _, _)
RefChanges(m, u, events) ==
    IF events = <<>> THEN m
    ELSE LET event == Head(events)
             text == IF event.range.kind = "None" \/ u \notin DOMAIN m
                     THEN event.text
                     ELSE RefApply(m[u], event)
         IN  RefChanges(RefPut(m, u, text), u, Tail(events))

\* the store after what a handler has done so far, had it run alone
RefEffect(m, task) ==
    IF task.op = "did_open" /\ task.pc = "done"
    THEN RefPut(m, task.params.uri, task.params.text)
    ELSE IF task.op = "did_close" /\ task.pc = "done"
    THEN [x \in DOMAIN m \ {task.params.uri} |-> m[x]]
    ELSE IF task.op = "did_change"
    THEN RefChanges(m, task.params.uri,
                    SubSeq(task.params.content_changes, 1, task.next))
    ELSE m

\* the store after the handlers, one at a time in the order of arrival
RECURSIVE RefSequentialRun(_, _)
RefSequentialRun(m, ts) ==
    IF ts = <<>> THEN m
    ELSE RefSequentialRun(RefEffect(m, Head(ts)), Tail(ts))

\* C17: the change batches of a document take effect in the order of their
\* arrival, each one whole before the next: in every state the store is what
\* the handlers give when run one at a time in that order; a change or format
\* handler that has touched the store finds every earlier change batch of
\* its document fully applied; the text a format request looks up is the text
\* after the handlers that arrived before it; and the text a change event
\* resolves its two positions against is the text it replaces in.
C17_BatchesWholeAndInOrder ==
    ~panicked =>
        /\ document_map = RefSequentialRun(EmptyMap, tasks)
        /\ \A i \in 1..Len(tasks) :
              (tasks[i].op \in {"did_change", "formatting"} /\ tasks[i].pc # "queued")
                 => \A j \in 1..(i - 1) :
                       (tasks[j].op = "did_change"
                          /\ tasks[j].params.uri = tasks[i].params.uri)
                            => tasks[j].pc = "done"
        /\ \A i \in 1..Len(tasks) :
              (tasks[i].op = "formatting" /\ tasks[i].pc \in {"guarded", "done"})
                 => LET before == RefSequentialRun(EmptyMap, SubSeq(tasks, 1, i - 1))
                    IN  /\ tasks[i].params.uri \in DOMAIN before
                        /\ tasks[i].base = before[tasks[i].params.uri]
        /\ \A i \in 1..Len(tasks) :
              (tasks[i].op = "did_change" /\ tasks[i].pc = "guarded")
                 => /\ tasks[i].params.uri \in DOMAIN document_map
                    /\ tasks[i].base = document_map[tasks[i].params.uri]

\* a batch of two events has applied its first event and holds the guard for
\* its second, while a later handler for the same document is in flight
C17_Witness ==
    \E i \in 1..Len(tasks), j \in 1..Len(tasks) :
        /\ i < j
        /\ tasks[i].op = "did_change"
        /\ tasks[i].pc = "guarded"
        /\ tasks[i].next = 1
        /\ tasks[j].op \in {"did_change", "formatting"}
        /\ tasks[j].params.uri = tasks[i].params.uri
        /\ tasks[j].pc = "queued"

\* the handler is about to access the store
at_store_access(task) ==
    /\ task.op \in {"did_open", "did_close", "did_change", "formatting"}
    /\ task.pc \in {"queued", "loop"}

\* the document the handler is for
OwnDocument(task) ==
    IF task.op \in {"did_open", "did_close", "did_change", "formatting"}
    THEN {task.params.uri} ELSE {}

\* the step leaves the document u as it is
Untouched(u) ==
    /\ (u \in DOMAIN document_map') = (u \in DOMAIN document_map)
    /\ u \in DOMAIN document_map => document_map'[u] = document_map[u]

====
